---- MODULE Spec2Model ----
(***************************************************************************)
(* State-machine model of the construction-chatbot retrieval core:         *)
(* DocumentRetriever (src/app/retriever.py) with its batch queue, vector   *)
(* store collection, query cache and semaphore; ConstructionChatbot        *)
(* (src/app/chatbot.py) with its conversation history; DocumentProcessor   *)
(* (src/app/document_processor.py) with its registry and its sectioner.    *)
(*                                                                         *)
(* Scheduling: one asyncio event loop.  Code between two awaits that       *)
(* really suspend (redis.get, semaphore wait, openai call, redis.set) runs *)
(* atomically.  add_sections, _process_batch and close never suspend on    *)
(* the batch path (collection.add is a synchronous call), so each of them  *)
(* is one atomic action.                                                   *)
(***************************************************************************)
EXTENDS Integers, Sequences, FiniteSets, TLC

VARIABLES
    batch_queue,        \* self.batch_queue: sequence of batch entries
    last_process_time,  \* self.last_process_time, in whole seconds
    now,                \* the wall clock read by datetime.now(), in seconds
    uuid_count,         \* number of uuid4() values drawn so far
    collection,         \* the vector store collection: records in insert order
    shutdown,           \* close() has been called (main.py shutdown_event)
    redis_open,         \* the cache connection has not been closed
    cache,              \* redis: set of [key, value, expires] entries
    sem_value,          \* self.semaphore: number of free permits
    pc,                 \* per request: where its query coroutine is suspended
    question,           \* per request: the question argument
    context,            \* per request: the context argument (Optional[str])
    results,            \* per request: what collection.query returned
    prompt,             \* per request: the prompt sent to the generation call
    response,           \* per request: the dict _generate_response returned
    outcome,            \* per request: what query returned or raised
    steps,              \* per request: the external calls it has issued so far
    faults,             \* failures of external calls so far
    accepted,           \* the batch entries of the inserts that succeeded, in order
    obs,                \* what the last batch operation did (observation record)
    run,                \* the add_sections calls since the queue was last empty
    history,            \* ConstructionChatbot.history: the retained exchanges
    turns,              \* every exchange chat has appended, in append order
    documents,          \* DocumentProcessor.documents: doc_id -> processed document
    upload              \* what the last document-processing call did (observation)

batchVars == <<batch_queue, last_process_time, uuid_count, collection, accepted,
               obs, run>>
requestVars == <<sem_value, pc, question, context, results, prompt, response,
                 outcome, steps>>
queryVars == <<cache, sem_value, pc, question, context, results, prompt, response,
               outcome, steps>>
appVars == <<history, turns, documents, upload>>
vars == <<batch_queue, last_process_time, now, uuid_count, collection, shutdown,
          redis_open, cache, sem_value, pc, question, context, results, prompt,
          response, outcome, steps, faults, accepted, obs, run,
          history, turns, documents, upload>>

----------------------------------------------------------------------------
(* Program constants *)

BATCH_SIZE == 10

MAX_CONCURRENT_CALLS == 5

\* the time threshold of add_sections, in seconds
FlushAfterSeconds == 60

\* timedelta.seconds is the seconds component of a timedelta: 0 .. 86399
SecondsPerDay == 86400

\* n_results of collection.query
TopK == 3

\* ex= of redis.set
CacheTtl == 300

----------------------------------------------------------------------------
(* Bounds of the model and the inputs drawn *)

\* add_sections calls in a behaviour of the batch specification
MaxUploads == 11

\* clock advances in a behaviour
MaxTicks == 2

\* failures of external calls (store, cache, generation service) in a behaviour
MaxFaults == 2

\* the clock advances by a minute, or by a day less half a minute
ClockSteps == {60, 86370}

DocIds == {"doc_spec_20261104"}

SectionsA ==
    << [title |-> "1.1 GENERAL", content |-> "Scope text.\n", page |-> 1],
       [title |-> "1.2 DEFINITIONS", content |-> "Def text.\n", page |-> 2] >>

SectionInputs == {SectionsA}

----------------------------------------------------------------------------
(* Pure helpers *)

RECURSIVE Flatten(_)
Flatten(ss) == IF ss = <<>> THEN <<>> ELSE Head(ss) \o Flatten(Tail(ss))

\* (a - b).seconds for datetimes a >= b given in whole seconds
Seconds(delta) == delta % SecondsPerDay

\* number of clock advances that led to time t (each step is 60 or 86370)
TicksOf(t) == (t \div 86370) + ((t % 86370) \div 60)

----------------------------------------------------------------------------
(* Batch accumulator: add_sections, _process_batch, close *)

\* UniqueDocId without the uuid suffix
UniqueDocId_NoSuffix(doc_id, n) == <<doc_id, 0>>

\* f"{doc_id}_{uuid.uuid4().hex[:8]}": the n-th uuid drawn is written n; the
\* suffix has a fixed width, so the pair determines the formatted string
UniqueDocId(doc_id, n) == <<doc_id, n>>

\* f"{item['doc_id']}_section_{idx}", idx counted from 0 by enumerate
SectionId(unique_doc_id, idx) == <<unique_doc_id, "section", idx>>

\* the records _process_batch builds for one queue item, in section order
ItemRecords(item, t) ==
    [k \in 1..Len(item.sections) |->
        [id |-> SectionId(item.doc_id, k - 1),
         document |-> item.sections[k].content,
         metadata |-> [doc_id |-> item.doc_id,
                       title |-> item.sections[k].title,
                       page |-> item.sections[k].page,
                       processed_at |-> t]]]

\* docs / metadata / ids of the whole queue, item by item
BatchRecords(queue, t) ==
    Flatten([i \in 1..Len(queue) |-> ItemRecords(queue[i], t)])

\* ShouldProcess with the size test off by one
ShouldProcess_SizeOffByOne(qlen, t, last) ==
    qlen > BATCH_SIZE \/ Seconds(t - last) > FlushAfterSeconds

\* the add_sections trigger: queue full, or waiting too long
ShouldProcess(qlen, t, last) ==
    qlen >= BATCH_SIZE \/ Seconds(t - last) > FlushAfterSeconds

\* ProcessBatch clearing the queue before the insert, so that a failed insert
\* loses it
ProcessBatch_ClearsFirst(queue, last, t, ok) ==
    IF queue = <<>>
    THEN [queue |-> queue, last |-> last, attempted |-> FALSE,
          batch |-> <<>>, added |-> <<>>, raised |-> FALSE]
    ELSE IF ok
    THEN [queue |-> <<>>, last |-> t, attempted |-> TRUE,
          batch |-> BatchRecords(queue, t), added |-> BatchRecords(queue, t),
          raised |-> FALSE]
    ELSE [queue |-> <<>>, last |-> last, attempted |-> TRUE,
          batch |-> BatchRecords(queue, t), added |-> <<>>, raised |-> TRUE]

\* ProcessBatch without the early return on the empty queue
ProcessBatch_NoEmptyCheck(queue, last, t, ok) ==
    IF ok
    THEN [queue |-> <<>>, last |-> t, attempted |-> TRUE,
          batch |-> BatchRecords(queue, t), added |-> BatchRecords(queue, t),
          raised |-> FALSE]
    ELSE [queue |-> queue, last |-> last, attempted |-> TRUE,
          batch |-> BatchRecords(queue, t), added |-> <<>>, raised |-> TRUE]

\* ProcessBatch that leaves the queue as it is after a successful insert
ProcessBatch_KeepsQueue(queue, last, t, ok) ==
    IF queue = <<>>
    THEN [queue |-> queue, last |-> last, attempted |-> FALSE,
          batch |-> <<>>, added |-> <<>>, raised |-> FALSE]
    ELSE IF ok
    THEN [queue |-> queue, last |-> t, attempted |-> TRUE,
          batch |-> BatchRecords(queue, t), added |-> BatchRecords(queue, t),
          raised |-> FALSE]
    ELSE [queue |-> queue, last |-> last, attempted |-> TRUE,
          batch |-> BatchRecords(queue, t), added |-> <<>>, raised |-> TRUE]

\* _process_batch on the given queue at time t; ok is whether collection.add
\* succeeds.  The result names the new queue and flush time, the records
\* handed to collection.add, and whether the call was made and whether the
\* method raised.
ProcessBatch(queue, last, t, ok) ==
    IF queue = <<>>
    THEN [queue |-> queue, last |-> last, attempted |-> FALSE,
          batch |-> <<>>, added |-> <<>>, raised |-> FALSE]
    ELSE IF ok
    THEN [queue |-> <<>>, last |-> t, attempted |-> TRUE,
          batch |-> BatchRecords(queue, t), added |-> BatchRecords(queue, t),
          raised |-> FALSE]
    ELSE [queue |-> queue, last |-> last, attempted |-> TRUE,
          batch |-> BatchRecords(queue, t), added |-> <<>>, raised |-> TRUE]

\* what a method that does not reach _process_batch leaves behind
NoFlush(queue, last) ==
    [queue |-> queue, last |-> last, attempted |-> FALSE,
     batch |-> <<>>, added |-> <<>>, raised |-> FALSE]

\* whether an external call succeeds: it may fail while the behaviour has
\* failures left
CallResults == IF faults < MaxFaults THEN BOOLEAN ELSE {TRUE}

\* the kind of the failed flush the last batch operation made, if it made one
FailedKind == IF obs.attempted /\ ~obs.ok THEN obs.trigger ELSE "none"

NewRun == [calls |-> 0, inserts |-> 0, clean |-> TRUE, quick |-> TRUE]

\* add_sections(doc_id, sections)
AddSections(doc_id, sections) ==
    /\ ~shutdown
    /\ LET entry == [doc_id |-> UniqueDocId(doc_id, uuid_count + 1),
                     sections |-> sections,
                     timestamp |-> now]
           queued == Append(batch_queue, entry)
           due == ShouldProcess(Len(queued), now, last_process_time)
           base == IF batch_queue = <<>>
                      /\ (run.calls = 0 \/ run.calls >= BATCH_SIZE \/ ~run.clean)
                   THEN NewRun ELSE run
       IN \E ok \in (IF due THEN CallResults ELSE {TRUE}) :
            LET r == IF due
                     THEN ProcessBatch(queued, last_process_time, now, ok)
                     ELSE NoFlush(queued, last_process_time)
            IN /\ batch_queue' = r.queue
               /\ last_process_time' = r.last
               /\ collection' = collection \o r.added
               /\ accepted' = IF r.attempted /\ ok THEN accepted \o queued ELSE accepted
               /\ uuid_count' = uuid_count + 1
               /\ faults' = IF ok THEN faults ELSE faults + 1
               /\ obs' = [op |-> "add_sections",
                          trigger |-> IF ~r.attempted THEN "none"
                                      ELSE IF Len(queued) >= BATCH_SIZE
                                      THEN "size" ELSE "time",
                          at |-> now,
                          elapsed |-> now - last_process_time,
                          qlen |-> Len(queued),
                          before |-> batch_queue,
                          flushed |-> queued,
                          last_before |-> last_process_time,
                          stored_before |-> Len(collection),
                          attempted |-> r.attempted,
                          ok |-> r.attempted /\ ~r.raised,
                          raised |-> r.raised,
                          batch |-> r.batch,
                          after_failed |-> FailedKind]
               /\ run' = [calls |-> base.calls + 1,
                          inserts |-> base.inserts + (IF r.attempted THEN 1 ELSE 0),
                          clean |-> base.clean /\ ~r.raised,
                          quick |-> base.quick
                                    /\ now - last_process_time <= FlushAfterSeconds]
    /\ UNCHANGED <<now, shutdown, redis_open>>
    /\ UNCHANGED queryVars

\* a direct call of _process_batch() where no caller of the program makes
\* one: on the empty queue (add_sections calls it after appending, close only
\* when the queue is not empty)
ProcessBatchCall ==
    /\ ~shutdown
    /\ batch_queue = <<>>
    /\ \E ok \in {TRUE} :
         LET r == ProcessBatch(batch_queue, last_process_time, now, ok)
         IN /\ batch_queue' = r.queue
            /\ faults' = faults
            /\ last_process_time' = r.last
            /\ collection' = collection \o r.added
            /\ accepted' = IF r.attempted /\ ok THEN accepted \o batch_queue ELSE accepted
            /\ obs' = [op |-> "process_batch",
                       trigger |-> IF r.attempted THEN "direct" ELSE "none",
                       at |-> now,
                       elapsed |-> now - last_process_time,
                       qlen |-> Len(batch_queue),
                       before |-> batch_queue,
                       flushed |-> batch_queue,
                       last_before |-> last_process_time,
                       stored_before |-> Len(collection),
                       attempted |-> r.attempted,
                       ok |-> r.attempted /\ ~r.raised,
                       raised |-> r.raised,
                       batch |-> r.batch,
                       after_failed |-> FailedKind]
    /\ run' = [run EXCEPT !.clean = FALSE]
    /\ UNCHANGED <<now, uuid_count, shutdown, redis_open>>
    /\ UNCHANGED queryVars

\* close(), called once by main.py's shutdown_event when no request is running:
\* drain the queue if it is not empty, then close the cache connection; an
\* exception of the drain skips the rest of the try block
Close ==
    /\ ~shutdown
    /\ \A p \in DOMAIN pc : pc[p] \in {"idle", "done"}
    /\ \E ok \in (IF batch_queue = <<>> THEN {TRUE} ELSE CallResults) :
         LET r == IF batch_queue # <<>>
                  THEN ProcessBatch(batch_queue, last_process_time, now, ok)
                  ELSE NoFlush(batch_queue, last_process_time)
         IN /\ batch_queue' = r.queue
            /\ faults' = IF ok THEN faults ELSE faults + 1
            /\ last_process_time' = r.last
            /\ collection' = collection \o r.added
            /\ accepted' = IF r.attempted /\ ok THEN accepted \o batch_queue ELSE accepted
            /\ redis_open' = IF r.raised THEN redis_open ELSE FALSE
            /\ obs' = [op |-> "close",
                       trigger |-> IF r.attempted THEN "drain" ELSE "none",
                       at |-> now,
                       elapsed |-> now - last_process_time,
                       qlen |-> Len(batch_queue),
                       before |-> batch_queue,
                       flushed |-> batch_queue,
                       last_before |-> last_process_time,
                       stored_before |-> Len(collection),
                       attempted |-> r.attempted,
                       ok |-> r.attempted /\ ~r.raised,
                       raised |-> r.raised,
                       batch |-> r.batch,
                       after_failed |-> FailedKind]
    /\ shutdown' = TRUE
    /\ run' = [run EXCEPT !.clean = FALSE]
    /\ UNCHANGED <<now, uuid_count>>
    /\ UNCHANGED queryVars

\* time passes: datetime.now() returns a later time at the next call, and
\* redis drops the keys whose time to live is over
Tick(d) ==
    /\ ~shutdown
    /\ TicksOf(now) < MaxTicks
    /\ now' = now + d
    /\ cache' = {e \in cache : now + d < e.expires}
    /\ UNCHANGED <<shutdown, redis_open, faults>>
    /\ UNCHANGED batchVars
    /\ UNCHANGED requestVars

----------------------------------------------------------------------------
(* Query path: query, _generate_response, _format_prompt *)

\* Optional[str] context: None and the empty string are both written "";
\* _format_prompt, its only reader, tests it with "if context"
NoContext == ""

CannedAnswer ==
    [answer |-> "I couldn't find anything relevant in the docs. Could you try rephrasing?",
     sources |-> <<>>]

\* CacheKey with one key for all questions
CacheKey_NoQuestion(q) == <<"query:", "">>

\* f"query:{question}"
CacheKey(q) == <<"query:", q>>

\* json.dumps / json.loads of an answer dict (strings, integers, lists)
Dumps(answer) == <<"json", answer>>
Loads(text) == text[2]

\* CacheGet that finds no entry
CacheGet_Misses(key) == <<>>

\* redis.get(key): the value of the live entry under the key, <<>> for None
CacheGet(key) ==
    LET live == {e \in cache : e.key = key}
    IN IF live = {} THEN <<>> ELSE <<(CHOOSE e \in live : TRUE).value>>

\* CacheSet that keeps an entry already stored under the key
CacheSet_KeepsFirst(key, value, ttl) ==
    IF \E e \in cache : e.key = key
    THEN cache
    ELSE cache \cup {[key |-> key, value |-> value, expires |-> now + ttl]}

\* redis.set(key, value, ex=ttl): replaces the entry under the key
CacheSet(key, value, ttl) ==
    {e \in cache : e.key # key}
        \cup {[key |-> key, value |-> value, expires |-> now + ttl]}

Reverse(seq) == [i \in 1..Len(seq) |-> seq[Len(seq) + 1 - i]]

FirstK(seq) == SubSeq(seq, 1, IF Len(seq) < TopK THEN Len(seq) ELSE TopK)

\* collection.query(query_texts=[q], n_results=3): the min(3, count) nearest
\* records, ranked by the store; two rankings of the store stand for it
Rankings(coll) == {FirstK(coll), FirstK(Reverse(coll))}

\* SourcesOf that lists the sources last to first
SourcesOf_Reversed(res) ==
    [i \in 1..Len(res) |-> [title |-> res[Len(res) + 1 - i].metadata.title,
                            page |-> res[Len(res) + 1 - i].metadata.page,
                            doc_id |-> res[Len(res) + 1 - i].metadata.doc_id]]

\* the sources of _generate_response: one per retrieved metadata, in order
SourcesOf(res) ==
    [i \in 1..Len(res) |-> [title |-> res[i].metadata.title,
                            page |-> res[i].metadata.page,
                            doc_id |-> res[i].metadata.doc_id]]

\* _format_prompt: the parts joined by newlines
FormatPrompt(q, res, ctx) ==
    (IF ctx # NoContext THEN << <<"context", ctx>> >> ELSE <<>>)
    \o (IF res # <<>>
        THEN << <<"Relevant sections:">> >>
             \o Flatten([i \in 1..Len(res) |->
                    << <<"Section", res[i].metadata.title, res[i].metadata.page>>,
                       <<"Content", res[i].document>> >>])
        ELSE << <<"No relevant sections found.">> >>)
    \o << <<"Question", q>> >>

\* NoSections that never finds the result empty
NoSections_Never(res) == FALSE

\* not results["documents"] or not results["documents"][0]
NoSections(res) == res = <<>>

\* CanAcquire that lets every request through
CanAcquire_Always(value) == TRUE

\* asyncio.Semaphore: acquire goes ahead when a permit is free
CanAcquire(value) == value > 0

\* query returned the answer (from: cache, canned or fresh) / raised at a step
Returned(answer, from) == [kind |-> "answer", value |-> answer, from |-> from]
Raised(step) == [kind |-> "error", at |-> step]

NoResponse == [answer |-> "", sources |-> <<>>]

\* query returns or raises: its frame, with results, prompt and response, is gone
Leave(p, result) ==
    /\ outcome' = [outcome EXCEPT ![p] = result]
    /\ pc' = [pc EXCEPT ![p] = "done"]
    /\ results' = [results EXCEPT ![p] = <<>>]
    /\ prompt' = [prompt EXCEPT ![p] = <<>>]
    /\ response' = [response EXCEPT ![p] = NoResponse]

\* query(question, context) is called for request p (requests are numbered
\* in the order of their calls): it runs to its first suspension, the awaited
\* redis.get
StartQuery(p, q, ctx) ==
    /\ ~shutdown
    /\ pc[p] = "idle"
    /\ \A r \in DOMAIN pc : r < p => pc[r] # "idle"
    /\ pc' = [pc EXCEPT ![p] = "cache_get"]
    /\ question' = [question EXCEPT ![p] = q]
    /\ context' = [context EXCEPT ![p] = ctx]
    /\ results' = [results EXCEPT ![p] = <<>>]
    /\ prompt' = [prompt EXCEPT ![p] = <<>>]
    /\ response' = [response EXCEPT ![p] = NoResponse]
    /\ outcome' = [outcome EXCEPT ![p] = [kind |-> "none"]]
    /\ steps' = [steps EXCEPT ![p] = <<"cache_get">>]
    /\ UNCHANGED <<cache, sem_value, now, shutdown, redis_open, faults>>
    /\ UNCHANGED batchVars

\* the request takes a permit, formats the prompt and issues the generation
\* call (async with self.semaphore: ... await openai...acreate)
EnterGenerate(p, res, done) ==
    /\ sem_value' = sem_value - 1
    /\ prompt' = [prompt EXCEPT ![p] = FormatPrompt(question[p], res, context[p])]
    /\ steps' = [steps EXCEPT ![p] = done \o <<"acquire", "generate">>]
    /\ pc' = [pc EXCEPT ![p] = "generate"]

\* redis.get returns (or raises): cache hit, or vector-store query and, with
\* sections found, entry into the gated generation step
AfterCacheGet(p) ==
    /\ pc[p] = "cache_get"
    /\ \E got \in CallResults, found \in CallResults, ranked \in Rankings(collection) :
         LET cached == CacheGet(CacheKey(question[p]))
             queried == Append(steps[p], "store_query")
         IN IF ~got
            THEN /\ Leave(p, Raised("cache_get"))
                 /\ faults' = faults + 1
                 /\ UNCHANGED <<sem_value, steps>>
            ELSE IF cached # <<>>
            THEN /\ Leave(p, Returned(Loads(cached[1]), "cache"))
                 /\ UNCHANGED <<sem_value, steps, faults>>
            ELSE IF ~found
            THEN /\ Leave(p, Raised("store_query"))
                 /\ steps' = [steps EXCEPT ![p] = queried]
                 /\ faults' = faults + 1
                 /\ UNCHANGED sem_value
            ELSE IF NoSections(ranked)
            THEN /\ Leave(p, Returned(CannedAnswer, "canned"))
                 /\ steps' = [steps EXCEPT ![p] = queried]
                 /\ UNCHANGED <<sem_value, faults>>
            ELSE /\ results' = [results EXCEPT ![p] = ranked]
                 /\ IF CanAcquire(sem_value)
                    THEN EnterGenerate(p, ranked, queried)
                    ELSE /\ pc' = [pc EXCEPT ![p] = "wait_sem"]
                         /\ steps' = [steps EXCEPT ![p] = queried]
                         /\ UNCHANGED <<sem_value, prompt>>
                 /\ UNCHANGED <<response, outcome, faults>>
    /\ UNCHANGED <<cache, question, context, now, shutdown, redis_open>>
    /\ UNCHANGED batchVars

\* a request waiting for the semaphore gets a permit
AcquirePermit(p) ==
    /\ pc[p] = "wait_sem"
    /\ CanAcquire(sem_value)
    /\ EnterGenerate(p, results[p], steps[p])
    /\ UNCHANGED <<cache, question, context, results, response, outcome,
                   now, shutdown, redis_open, faults>>
    /\ UNCHANGED batchVars

\* AfterGenerate that keeps the permit of a request whose generation failed
AfterGenerate_LeaksOnFailure(p, text) ==
    /\ pc[p] = "generate"
    /\ \E ok \in CallResults :
         IF ok
         THEN /\ sem_value' = sem_value + 1
              /\ response' = [response EXCEPT ![p] =
                                 [answer |-> text, sources |-> SourcesOf(results[p])]]
              /\ steps' = [steps EXCEPT ![p] = @ \o <<"release", "cache_set">>]
              /\ pc' = [pc EXCEPT ![p] = "cache_set"]
              /\ UNCHANGED <<results, prompt, outcome, faults>>
         ELSE /\ Leave(p, Raised("generate"))
              /\ faults' = faults + 1
              /\ UNCHANGED <<sem_value, steps>>
    /\ UNCHANGED <<cache, question, context, now, shutdown, redis_open>>
    /\ UNCHANGED batchVars

\* AfterGenerate that goes on to the cache write after a failed generation
AfterGenerate_CachesOnFailure(p, text) ==
    /\ pc[p] = "generate"
    /\ sem_value' = sem_value + 1
    /\ \E ok \in CallResults :
         /\ response' = [response EXCEPT ![p] =
                            IF ok THEN [answer |-> text, sources |-> SourcesOf(results[p])]
                            ELSE NoResponse]
         /\ steps' = [steps EXCEPT ![p] = @ \o <<"release", "cache_set">>]
         /\ pc' = [pc EXCEPT ![p] = "cache_set"]
         /\ faults' = IF ok THEN faults ELSE faults + 1
         /\ UNCHANGED <<results, prompt, outcome>>
    /\ UNCHANGED <<cache, question, context, now, shutdown, redis_open>>
    /\ UNCHANGED batchVars

\* the generation call returns text (or raises): the permit is released, the
\* answer is built and the awaited redis.set is issued
AfterGenerate(p, text) ==
    /\ pc[p] = "generate"
    /\ sem_value' = sem_value + 1
    /\ \E ok \in CallResults :
         IF ok
         THEN /\ response' = [response EXCEPT ![p] =
                                 [answer |-> text, sources |-> SourcesOf(results[p])]]
              /\ steps' = [steps EXCEPT ![p] = @ \o <<"release", "cache_set">>]
              /\ pc' = [pc EXCEPT ![p] = "cache_set"]
              /\ UNCHANGED <<results, prompt, outcome, faults>>
         ELSE /\ Leave(p, Raised("generate"))
              /\ steps' = [steps EXCEPT ![p] = Append(@, "release")]
              /\ faults' = faults + 1
    /\ UNCHANGED <<cache, question, context, now, shutdown, redis_open>>
    /\ UNCHANGED batchVars

\* AfterCacheSet that returns the generated answer although redis.set raised
AfterCacheSet_SwallowsFailure(p) ==
    /\ pc[p] = "cache_set"
    /\ \E ok \in CallResults :
         IF ok
         THEN /\ cache' = CacheSet(CacheKey(question[p]), Dumps(response[p]), CacheTtl)
              /\ Leave(p, Returned(response[p], "fresh"))
              /\ UNCHANGED faults
         ELSE /\ Leave(p, Returned(response[p], "fresh"))
              /\ faults' = faults + 1
              /\ UNCHANGED cache
    /\ UNCHANGED <<sem_value, question, context, steps, now, shutdown, redis_open>>
    /\ UNCHANGED batchVars

\* redis.set returns (or raises): the answer is cached and returned
AfterCacheSet(p) ==
    /\ pc[p] = "cache_set"
    /\ \E ok \in CallResults :
         IF ok
         THEN /\ cache' = CacheSet(CacheKey(question[p]), Dumps(response[p]), CacheTtl)
              /\ Leave(p, Returned(response[p], "fresh"))
              /\ UNCHANGED faults
         ELSE /\ Leave(p, Raised("cache_set"))
              /\ faults' = faults + 1
              /\ UNCHANGED cache
    /\ UNCHANGED <<sem_value, question, context, steps, now, shutdown, redis_open>>
    /\ UNCHANGED batchVars

----------------------------------------------------------------------------
(* Initial state: after DocumentRetriever.__init__ *)

\* query requests in a behaviour of the serving specification
NumRequests == 2

Requests == 1..NumRequests

\* query requests in a behaviour of the permit specification: one more than
\* there are permits
Callers == 1..(MAX_CONCURRENT_CALLS + 1)

OneQuestion == {"What is the scope?"}

OneText == {"The scope is general."}

\* add_sections calls in a behaviour of the indexing specification
IndexUploads == 3

IndexDocIds == {"doc_spec_20261104", "doc_plan_20261104"}

SectionsB ==
    << [title |-> "", content |-> "Unheadered text.\n", page |-> 1] >>

IndexSectionInputs == {SectionsA, SectionsB, <<>>}

Questions == {"What is the scope?", "Which definitions apply?"}

Contexts == {NoContext, "Recent conversation:"}

Texts == {"The scope is general.", "See section 1.2."}

\* add_sections calls in a behaviour of the whole-retriever specification
SmallUploads == 1

InitBatch ==
    /\ batch_queue = <<>>
    /\ now = 0
    /\ last_process_time = now
    /\ uuid_count = 0
    /\ collection = <<>>
    /\ accepted = <<>>
    /\ shutdown = FALSE
    /\ redis_open = TRUE
    /\ faults = 0
    /\ obs = [op |-> "init", trigger |-> "none", at |-> 0, elapsed |-> 0,
              qlen |-> 0, before |-> <<>>, flushed |-> <<>>, last_before |-> 0,
              stored_before |-> 0, attempted |-> FALSE, ok |-> FALSE,
              raised |-> FALSE, batch |-> <<>>, after_failed |-> "none"]
    /\ run = NewRun

\* ConstructionChatbot.__init__ and DocumentProcessor.__init__
NoUpload == [calls |-> 0, processed |-> 0, op |-> "none", doc_id |-> "",
             input |-> <<>>, page |-> 0, failed |-> FALSE, sections |-> <<>>]

InitApp ==
    /\ history = <<>>
    /\ turns = <<>>
    /\ documents = <<>>
    /\ upload = NoUpload

InitQuery(procs) ==
    /\ cache = {}
    /\ sem_value = MAX_CONCURRENT_CALLS
    /\ pc = [p \in procs |-> "idle"]
    /\ question = [p \in procs |-> ""]
    /\ context = [p \in procs |-> ""]
    /\ results = [p \in procs |-> <<>>]
    /\ prompt = [p \in procs |-> <<>>]
    /\ response = [p \in procs |-> NoResponse]
    /\ outcome = [p \in procs |-> [kind |-> "none"]]
    /\ steps = [p \in procs |-> <<>>]

\* The batch accumulator alone: uploads, direct flushes, shutdown, the clock
InitB == InitBatch /\ InitQuery({}) /\ InitApp

NextB ==
    \/ \E d \in DocIds, s \in SectionInputs :
         uuid_count < MaxUploads /\ AddSections(d, s) /\ UNCHANGED appVars
    \/ ProcessBatchCall /\ UNCHANGED appVars
    \/ Close /\ UNCHANGED appVars
    \/ \E d \in ClockSteps : Tick(d) /\ UNCHANGED appVars

SpecBatch == InitB /\ [][NextB]_vars

\* Indexing with varied uploads: documents with two, one and no sections,
\* repeated external doc_ids, failed inserts, the clock, shutdown
InitI == InitBatch /\ InitQuery({}) /\ InitApp

NextI ==
    \/ \E d \in IndexDocIds, s \in IndexSectionInputs :
         uuid_count < IndexUploads /\ AddSections(d, s) /\ UNCHANGED appVars
    \/ Close /\ UNCHANGED appVars
    \/ \E d \in ClockSteps : Tick(d) /\ UNCHANGED appVars

SpecIndex == InitI /\ [][NextI]_vars

\* The retriever while it serves: one upload and concurrent query requests
InitQ == InitBatch /\ InitQuery(Requests) /\ InitApp

NextQ ==
    \/ \E d \in DocIds, s \in SectionInputs :
         uuid_count < SmallUploads /\ AddSections(d, s) /\ UNCHANGED appVars
    \/ \E d \in ClockSteps : Tick(d) /\ UNCHANGED appVars
    \/ \E p \in Requests, q \in Questions, c \in Contexts : StartQuery(p, q, c) /\ UNCHANGED appVars
    \/ \E p \in Requests : AfterCacheGet(p) /\ UNCHANGED appVars
    \/ \E p \in Requests, t \in Texts : AfterGenerate(p, t) /\ UNCHANGED appVars
    \/ \E p \in Requests : AfterCacheSet(p) /\ UNCHANGED appVars

SpecQuery == InitQ /\ [][NextQ]_vars

\* More concurrent requests than permits, all asking the same question of a
\* retriever that has indexed one document: the state after construction, a
\* day without uploads, and one add_sections call whose time-triggered flush
\* succeeded.
IndexedAt == 86370

IndexedEntry ==
    [doc_id |-> UniqueDocId("doc_spec_20261104", 1), sections |-> SectionsB,
     timestamp |-> IndexedAt]

InitIndexed ==
    /\ batch_queue = <<>>
    /\ now = IndexedAt
    /\ last_process_time = IndexedAt
    /\ uuid_count = 1
    /\ collection = BatchRecords(<<IndexedEntry>>, IndexedAt)
    /\ accepted = <<IndexedEntry>>
    /\ shutdown = FALSE
    /\ redis_open = TRUE
    /\ faults = 0
    /\ obs = [op |-> "add_sections", trigger |-> "time", at |-> IndexedAt,
              elapsed |-> IndexedAt, qlen |-> 1, before |-> <<>>,
              flushed |-> <<IndexedEntry>>, last_before |-> 0,
              stored_before |-> 0, attempted |-> TRUE, ok |-> TRUE,
              raised |-> FALSE,
              batch |-> BatchRecords(<<IndexedEntry>>, IndexedAt),
              after_failed |-> "none"]
    /\ run = [calls |-> 1, inserts |-> 1, clean |-> TRUE, quick |-> FALSE]

InitP == InitIndexed /\ InitQuery(Callers) /\ InitApp

NextP ==
    \/ \E p \in Callers, q \in OneQuestion : StartQuery(p, q, NoContext) /\ UNCHANGED appVars
    \/ \E p \in Callers : AfterCacheGet(p) /\ UNCHANGED appVars
    \/ \E p \in Callers : AcquirePermit(p) /\ UNCHANGED appVars
    \/ \E p \in Callers, t \in OneText : AfterGenerate(p, t) /\ UNCHANGED appVars
    \/ \E p \in Callers : AfterCacheSet(p) /\ UNCHANGED appVars

SpecPermits == InitP /\ [][NextP]_vars

----------------------------------------------------------------------------
(* ConstructionChatbot.chat: the conversation history around query *)

\* len(self.history) > 5: the exchanges the history retains
HistoryCap == 5

\* self.history[-2:]: the exchanges _get_context renders
ContextWindow == 2

\* seq[-k:]
LastK(seq, k) == SubSeq(seq, IF Len(seq) > k THEN Len(seq) - k + 1 ELSE 1, Len(seq))

\* _get_context where the whole history is rendered
GetContext_WholeHistory(hist) ==
    <<"Recent conversation:">>
    \o Flatten([i \in 1..Len(hist) |->
                  << <<"Q: ", hist[i].question>>,
                     <<"A: ", hist[i].answer, "\n">> >>])

\* _get_context: the preamble and, for each of the last two exchanges, a
\* "Q: ..." line and an "A: ...\n" line; the sequence of the lines stands for
\* their "\n".join
GetContext(hist) ==
    <<"Recent conversation:">>
    \o Flatten([i \in 1..Len(LastK(hist, ContextWindow)) |->
                  << <<"Q: ", LastK(hist, ContextWindow)[i].question>>,
                     <<"A: ", LastK(hist, ContextWindow)[i].answer, "\n">> >>])

\* self._get_context() if self.history else None
ChatContext(hist) == IF hist # <<>> THEN GetContext(hist) ELSE NoContext

\* Record that evicts the newest exchange instead of the oldest
Record_EvictsNewest(hist, entry) ==
    IF Len(Append(hist, entry)) > HistoryCap
    THEN hist
    ELSE Append(hist, entry)

\* self.history.append(...); if len(self.history) > 5: self.history.pop(0)
Record(hist, entry) ==
    IF Len(Append(hist, entry)) > HistoryCap
    THEN Tail(Append(hist, entry))
    ELSE Append(hist, entry)

\* the exchange chat appends when query returned response to message
Exchange(message, resp) ==
    [question |-> message, answer |-> resp.answer, timestamp |-> now]

\* chat(message) is called for turn p: the context is rendered from the
\* history and query runs to its first suspension
StartChat(p, message) ==
    /\ StartQuery(p, message, ChatContext(history))
    /\ UNCHANGED appVars

\* ChatReturn that records the exchange of a query that raised as well
ChatReturn_RecordsFailures(p) ==
    /\ IF pc'[p] = "done"
       THEN /\ history' = Record(history,
                              Exchange(question[p],
                                       IF outcome'[p].kind = "answer"
                                       THEN outcome'[p].value ELSE NoResponse))
            /\ turns' = Append(turns,
                              Exchange(question[p],
                                       IF outcome'[p].kind = "answer"
                                       THEN outcome'[p].value ELSE NoResponse))
       ELSE UNCHANGED <<history, turns>>
    /\ UNCHANGED <<documents, upload>>

\* the rest of chat after the awaited query: when query returns in this step,
\* the exchange is appended and the history trimmed; when it raises or is
\* still suspended, the history is left alone
ChatReturn(p) ==
    /\ IF pc'[p] = "done" /\ outcome'[p].kind = "answer"
       THEN /\ history' = Record(history, Exchange(question[p], outcome'[p].value))
            /\ turns' = Append(turns, Exchange(question[p], outcome'[p].value))
       ELSE UNCHANGED <<history, turns>>
    /\ UNCHANGED <<documents, upload>>

ChatAfterCacheGet(p) == AfterCacheGet(p) /\ ChatReturn(p)

ChatAfterGenerate(p, text) == AfterGenerate(p, text) /\ ChatReturn(p)

ChatAfterCacheSet(p) == AfterCacheSet(p) /\ ChatReturn(p)

\* chat has returned or raised to its caller (main.py's chat endpoint); the
\* coroutine of the turn is gone and its slot serves a later turn
Discard(p) ==
    /\ pc[p] = "done"
    /\ pc' = [pc EXCEPT ![p] = "idle"]
    /\ question' = [question EXCEPT ![p] = ""]
    /\ context' = [context EXCEPT ![p] = ""]
    /\ outcome' = [outcome EXCEPT ![p] = [kind |-> "none"]]
    /\ steps' = [steps EXCEPT ![p] = <<>>]
    /\ UNCHANGED <<cache, sem_value, results, prompt, response, now, shutdown,
                   redis_open, faults>>
    /\ UNCHANGED batchVars
    /\ UNCHANGED appVars

\* chat turns in a behaviour of the conversation specification
MaxTurns == 7

\* the slots of the chat turns: two turns may be in progress at the same time
ChatTurns == {1, 2}

InFlight == {p \in DOMAIN pc : pc[p] \notin {"idle", "done"}}

\* the chat turns begun so far: those that returned, those that raised and
\* those in progress
Begun == Len(turns) + faults + Cardinality({p \in DOMAIN pc : pc[p] # "idle"})

\* The chatbot in conversation: an indexed document, up to two concurrent
\* chat turns, failing calls
InitC == InitIndexed /\ InitQuery(ChatTurns) /\ InitApp

NextC ==
    \/ \E p \in ChatTurns, q \in Questions :
         Begun < MaxTurns /\ StartChat(p, q)
    \/ \E p \in ChatTurns : Discard(p)
    \/ \E p \in ChatTurns : ChatAfterCacheGet(p)
    \/ \E p \in ChatTurns, t \in OneText : ChatAfterGenerate(p, t)
    \/ \E p \in ChatTurns : ChatAfterCacheSet(p)

SpecChat == InitC /\ [][NextC]_vars

----------------------------------------------------------------------------
(* DocumentProcessor: _is_section_header, _split_into_sections             *)
(* A text, a line, a title and a content are sequences of characters.      *)

SECTION_WORD == <<"S", "E", "C", "T", "I", "O", "N">>

ARTICLE_WORD == <<"A", "r", "t", "i", "c", "l", "e">>

\* characters of the page texts that are neither digits, capitals nor spaces
OtherChars == {".", "a", "c", "e", "g", "i", "l", "o", "p", "r", "t"}

L_BLANK == <<" ", "\t">>
L_NUMBERED == <<"1", ".", "1", " ", "G">>
L_SECTION == <<" ", " ", "S", "E", "C", "T", "I", "O", "N", " ", "0", "1", " ">>
L_ARTICLE == <<"A", "r", "t", "i", "c", "l", "e", " ", "7">>
L_ITEM == <<"2", ".", " ", " ", "S">>
L_BODY == <<"S", "c", "o", "p", "e", ".">>
L_LOWER == <<"1", ".", "1", " ", "g">>
L_ONEDIGIT == <<"S", "E", "C", "T", "I", "O", "N", " ", "1">>

Digits == {"0", "1", "2", "3", "4", "5", "6", "7", "8", "9"}

Uppers == {"A", "B", "C", "D", "E", "F", "G", "H", "I", "J", "K", "L", "M",
           "N", "O", "P", "Q", "R", "S", "T", "U", "V", "W", "X", "Y", "Z"}

\* the characters str.strip() removes and \s matches
Whitespace == {" ", "\t", "\n", "\r", "\f"}

\* the first index from i on whose character is not in the class
RECURSIVE Span(_, _, _)
Span(line, i, class) ==
    IF i <= Len(line) /\ line[i] \in class THEN Span(line, i + 1, class) ELSE i

\* the last index up to i whose character is not in the class
RECURSIVE SpanBack(_, _, _)
SpanBack(line, i, class) ==
    IF i >= 1 /\ line[i] \in class THEN SpanBack(line, i - 1, class) ELSE i

\* line.strip()
Strip(line) == SubSeq(line, Span(line, 1, Whitespace),
                      SpanBack(line, Len(line), Whitespace))

StartsWith(line, word) == Len(line) >= Len(word) /\ SubSeq(line, 1, Len(word)) = word

\* re.match(r'^\d+\.\d+\s+[A-Z]', line)
MatchesNumbered(line) ==
    LET a == Span(line, 1, Digits)
        b == Span(line, a + 1, Digits)
        c == Span(line, b, Whitespace)
    IN /\ a > 1 /\ a <= Len(line) /\ line[a] = "."
       /\ b > a + 1
       /\ c > b /\ c <= Len(line) /\ line[c] \in Uppers

\* re.match(r'^SECTION\s+\d{2}', line)
MatchesSection(line) ==
    LET c == Span(line, 8, Whitespace)
    IN /\ StartsWith(line, SECTION_WORD)
       /\ c > 8 /\ c + 1 <= Len(line)
       /\ line[c] \in Digits /\ line[c + 1] \in Digits

\* re.match(r'^Article\s+\d+', line)
MatchesArticle(line) ==
    LET c == Span(line, 8, Whitespace)
    IN /\ StartsWith(line, ARTICLE_WORD)
       /\ c > 8 /\ c <= Len(line) /\ line[c] \in Digits

\* re.match(r'^\d+\.\s+[A-Z]', line)
MatchesItem(line) ==
    LET a == Span(line, 1, Digits)
        c == Span(line, a + 1, Whitespace)
    IN /\ a > 1 /\ a <= Len(line) /\ line[a] = "."
       /\ c > a + 1 /\ c <= Len(line) /\ line[c] \in Uppers

\* _is_section_header: any of the four patterns matches at the start
IsSectionHeader(line) ==
    MatchesNumbered(line) \/ MatchesSection(line) \/ MatchesArticle(line)
        \/ MatchesItem(line)

\* text.split('\n')
RECURSIVE SplitLines(_)
SplitLines(text) ==
    LET i == Span(text, 1, (Digits \cup Uppers \cup Whitespace \cup OtherChars) \ {"\n"})
    IN IF i > Len(text)
       THEN <<text>>
       ELSE <<SubSeq(text, 1, i - 1)>> \o SplitLines(SubSeq(text, i + 1, Len(text)))

\* the section _split_into_sections starts with, and starts at a header
NewSection(title, page_num) == [title |-> title, content |-> <<>>, page |-> page_num]

\* SectionStep that saves the previous section at every header
SectionStep_AlwaysSaves(st, raw, page_num) ==
    IF Strip(raw) = <<>>
    THEN st
    ELSE IF IsSectionHeader(Strip(raw))
    THEN [sections |-> Append(st.sections, st.current),
          current |-> NewSection(Strip(raw), page_num)]
    ELSE [st EXCEPT !.current.content = @ \o Strip(raw) \o <<"\n">>]

\* one pass of the loop of _split_into_sections over a line
SectionStep(st, raw, page_num) ==
    IF Strip(raw) = <<>>
    THEN st
    ELSE IF IsSectionHeader(Strip(raw))
    THEN [sections |-> IF st.current.content # <<>>
                       THEN Append(st.sections, st.current)
                       ELSE st.sections,
          current |-> NewSection(Strip(raw), page_num)]
    ELSE [st EXCEPT !.current.content = @ \o Strip(raw) \o <<"\n">>]

RECURSIVE SectionLoop(_, _, _)
SectionLoop(st, lines, page_num) ==
    IF lines = <<>>
    THEN st
    ELSE SectionLoop(SectionStep(st, Head(lines), page_num), Tail(lines), page_num)

\* _split_into_sections: the loop, then the final section if it has content
SplitIntoSections(text, page_num) ==
    LET st == SectionLoop([sections |-> <<>>, current |-> NewSection(<<>>, page_num)],
                          SplitLines(text), page_num)
    IN IF st.current.content # <<>>
       THEN Append(st.sections, st.current)
       ELSE st.sections

\* Lines of the page texts: empty, blank, the four header forms (one of them
\* indented), a body line, and lines that only look like headers
LineAlphabet ==
    { <<>>,
      L_BLANK,
      L_NUMBERED,
      L_SECTION,
      L_ARTICLE,
      L_ITEM,
      L_BODY,
      L_LOWER,
      L_ONEDIGIT }

\* lines of a page text
MaxLines == 3

RECURSIVE JoinLines(_)
JoinLines(lines) ==
    IF Len(lines) = 1 THEN lines[1]
    ELSE lines[1] \o <<"\n">> \o JoinLines(Tail(lines))

\* the page texts get_page_text may return: up to MaxLines lines
PageTexts ==
    UNION {{JoinLines(ls) : ls \in [1..n -> LineAlphabet]} : n \in 1..MaxLines}

PageNumbers == {1, 2}

\* _split_into_sections(text, page_num) is called
SplitPage(text, page_num) ==
    /\ upload' = [calls |-> 1, processed |-> 0, op |-> "split", doc_id |-> "",
                  input |-> <<text>>, page |-> page_num, failed |-> FALSE,
                  sections |-> SplitIntoSections(text, page_num)]
    /\ UNCHANGED <<history, turns, documents>>
    /\ UNCHANGED <<now, shutdown, redis_open, faults>>
    /\ UNCHANGED batchVars
    /\ UNCHANGED queryVars

\* The sectioner alone
InitS == InitBatch /\ InitQuery({}) /\ InitApp

\* one call per behaviour
NextS ==
    /\ upload.calls = 0
    /\ \E text \in PageTexts, n \in PageNumbers : SplitPage(text, n)

SpecSectioner == InitS /\ [][NextS]_vars

----------------------------------------------------------------------------
(* process_document: DocumentProcessor.process_document and                *)
(* ConstructionChatbot.process_document                                    *)

\* what get_page_text does for a page: it returns the text or raises
Page(text) == [ok |-> TRUE, text |-> text]

ExtractError == [ok |-> FALSE, text |-> <<>>]

\* a file: FitzPDFHandler(file_path) opens it or raises; its pages
File(pages) == [readable |-> TRUE, pages |-> pages]

Unreadable == [readable |-> FALSE, pages |-> <<>>]

\* the pages are extracted in order up to the first page that fails
FailsAt(pages) ==
    IF \E i \in 1..Len(pages) : ~pages[i].ok
    THEN CHOOSE i \in 1..Len(pages) :
            ~pages[i].ok /\ \A j \in 1..(i - 1) : pages[j].ok
    ELSE Len(pages) + 1

\* sections.extend(self._split_into_sections(text, page_num)) for the first
\* n pages
SectionsOfPages(pages, n) ==
    Flatten([i \in 1..n |-> SplitIntoSections(pages[i].text, i)])

\* ProcessorRun that registers the pages extracted before the failure
ProcessorRun_StoresPartial(file) ==
    IF ~file.readable
    THEN [failed |-> TRUE, stored |-> FALSE, sections |-> <<>>, total_pages |-> 0]
    ELSE [failed |-> FailsAt(file.pages) <= Len(file.pages),
          stored |-> TRUE,
          sections |-> SectionsOfPages(file.pages, FailsAt(file.pages) - 1),
          total_pages |-> Len(file.pages)]

\* DocumentProcessor.process_document: every page is extracted and split, then
\* the document is registered; an exception before that leaves the try block
ProcessorRun(file) ==
    IF ~file.readable \/ FailsAt(file.pages) <= Len(file.pages)
    THEN [failed |-> TRUE, stored |-> FALSE, sections |-> <<>>, total_pages |-> 0]
    ELSE [failed |-> FALSE,
          stored |-> TRUE,
          sections |-> SectionsOfPages(file.pages, Len(file.pages)),
          total_pages |-> Len(file.pages)]

\* self.documents[doc_id] = {...}
Register(docs, doc_id, r) ==
    [d \in DOMAIN docs \cup {doc_id} |->
        IF d = doc_id
        THEN [sections |-> r.sections, total_pages |-> r.total_pages]
        ELSE docs[d]]

\* ConstructionChatbot.process_document(file_path) for a file whose doc_id
\* and content are given: the processor runs, and unless it raised the
\* sections go to add_sections (which does not suspend)
ProcessDocument(doc_id, file) ==
    /\ ~shutdown
    /\ LET r == ProcessorRun(file)
       IN /\ documents' = IF r.stored THEN Register(documents, doc_id, r)
                          ELSE documents
          /\ upload' = [calls |-> upload.calls + 1,
                        processed |-> upload.processed + (IF r.failed THEN 0 ELSE 1),
                        op |-> "process_document", doc_id |-> doc_id,
                        input |-> file, page |-> 0, failed |-> r.failed,
                        sections |-> r.sections]
          /\ IF r.failed
             THEN /\ UNCHANGED <<now, shutdown, redis_open, faults>>
                  /\ UNCHANGED batchVars
                  /\ UNCHANGED queryVars
             ELSE AddSections(doc_id, r.sections)
    /\ UNCHANGED <<history, turns>>

\* process_document calls in a behaviour of the document specification
MaxDocs == 2

PAGE_TWO_SECTIONS == <<"1", ".", "1", " ", "G", "\n", "S", "c", "o", "p", "e", ".", "\n", "A", "r", "t", "i", "c", "l", "e", " ", "7", "\n", "S", "c", "o", "p", "e", ".">>

PAGE_PLAIN == <<"S", "c", "o", "p", "e", ".", "\n">>

\* the files uploaded: unreadable, without pages, one page, two pages, and
\* with a page whose extraction fails, first or after a good page
DocInputs ==
    { Unreadable,
      File(<<>>),
      File(<<Page(PAGE_TWO_SECTIONS)>>),
      File(<<Page(PAGE_PLAIN), Page(PAGE_TWO_SECTIONS)>>),
      File(<<ExtractError>>),
      File(<<Page(PAGE_TWO_SECTIONS), ExtractError>>),
      File(<<ExtractError, Page(PAGE_PLAIN)>>) }

\* Document uploads through the chatbot, the clock, shutdown
InitD == InitBatch /\ InitQuery({}) /\ InitApp

NextD ==
    \/ \E d \in IndexDocIds, file \in DocInputs :
         upload.calls < MaxDocs /\ ProcessDocument(d, file)
    \/ Close /\ UNCHANGED appVars
    \/ \E d \in ClockSteps : Tick(d) /\ UNCHANGED appVars

SpecDocs == InitD /\ [][NextD]_vars

----------------------------------------------------------------------------
(* One query request against a store of up to four sections *)

\* add_sections calls in a behaviour of the sources specification
SourceUploads == 2

Asker == {1}

InitA == InitBatch /\ InitQuery(Asker) /\ InitApp

NextA ==
    \/ \E d \in DocIds, s \in SectionInputs :
         uuid_count < SourceUploads /\ AddSections(d, s) /\ UNCHANGED appVars
    \/ \E d \in ClockSteps : Tick(d) /\ UNCHANGED appVars
    \/ \E p \in Asker, q \in OneQuestion : StartQuery(p, q, NoContext) /\ UNCHANGED appVars
    \/ \E p \in Asker : AfterCacheGet(p) /\ UNCHANGED appVars
    \/ \E p \in Asker, t \in OneText : AfterGenerate(p, t) /\ UNCHANGED appVars
    \/ \E p \in Asker : AfterCacheSet(p) /\ UNCHANGED appVars

SpecSources == InitA /\ [][NextA]_vars

----------------------------------------------------------------------------
(* close() interleaved with add_sections: close suspends at the awaited    *)
(* redis.close(), after its drain, and uploads may run meanwhile           *)

\* the task that runs close()
Closer == "closer"

\* close() runs to its suspension: the drain of a non-empty queue, then the
\* awaited redis.close(); an exception of the drain ends close() at once
CloseBegin ==
    /\ ~shutdown
    /\ pc[Closer] = "idle"
    /\ \E ok \in (IF batch_queue = <<>> THEN {TRUE} ELSE CallResults) :
         LET r == IF batch_queue # <<>>
                  THEN ProcessBatch(batch_queue, last_process_time, now, ok)
                  ELSE NoFlush(batch_queue, last_process_time)
         IN /\ batch_queue' = r.queue
            /\ faults' = IF ok THEN faults ELSE faults + 1
            /\ last_process_time' = r.last
            /\ collection' = collection \o r.added
            /\ accepted' = IF r.attempted /\ ok THEN accepted \o batch_queue ELSE accepted
            /\ pc' = [pc EXCEPT ![Closer] = IF r.raised THEN "done" ELSE "redis_close"]
            /\ shutdown' = r.raised
            /\ obs' = [op |-> "close",
                       trigger |-> IF r.attempted THEN "drain" ELSE "none",
                       at |-> now,
                       elapsed |-> now - last_process_time,
                       qlen |-> Len(batch_queue),
                       before |-> batch_queue,
                       flushed |-> batch_queue,
                       last_before |-> last_process_time,
                       stored_before |-> Len(collection),
                       attempted |-> r.attempted,
                       ok |-> r.attempted /\ ~r.raised,
                       raised |-> r.raised,
                       batch |-> r.batch,
                       after_failed |-> FailedKind]
    /\ run' = [run EXCEPT !.clean = FALSE]
    /\ UNCHANGED <<now, uuid_count, redis_open>>
    /\ UNCHANGED <<cache, sem_value, question, context, results, prompt, response,
                   outcome, steps>>

\* redis.close() returns (or raises): close() ends
CloseEnd ==
    /\ pc[Closer] = "redis_close"
    /\ \E ok \in CallResults :
         /\ redis_open' = ~ok
         /\ faults' = IF ok THEN faults ELSE faults + 1
    /\ pc' = [pc EXCEPT ![Closer] = "done"]
    /\ shutdown' = TRUE
    /\ UNCHANGED now
    /\ UNCHANGED batchVars
    /\ UNCHANGED <<cache, sem_value, question, context, results, prompt, response,
                   outcome, steps>>

\* add_sections calls in a behaviour of the interleaving specification
RaceUploads == 5

\* Uploads and shutdown interleaved
InitR == InitBatch /\ InitQuery({Closer}) /\ InitApp

NextR ==
    \/ \E d \in DocIds, s \in SectionInputs :
         uuid_count < RaceUploads /\ AddSections(d, s) /\ UNCHANGED appVars
    \/ CloseBegin /\ UNCHANGED appVars
    \/ CloseEnd /\ UNCHANGED appVars
    \/ \E d \in ClockSteps : Tick(d) /\ UNCHANGED appVars

SpecRace == InitR /\ [][NextR]_vars

----------------------------------------------------------------------------
(* Chat turns against a retriever that starts empty and indexes one upload *)

\* chat turns in a behaviour of the turn specification
FewTurns == 4

\* The chatbot before any document is indexed: the clock is followed up to the
\* first upload, chat turns run before and after it
InitT == InitBatch /\ InitQuery(ChatTurns) /\ InitApp

NextT ==
    \/ \E d \in DocIds, s \in SectionInputs :
         uuid_count = 0 /\ AddSections(d, s) /\ UNCHANGED appVars
    \/ \E d \in ClockSteps : uuid_count = 0 /\ Tick(d) /\ UNCHANGED appVars
    \/ \E p \in ChatTurns, q \in OneQuestion : Begun < FewTurns /\ StartChat(p, q)
    \/ \E p \in ChatTurns : Discard(p)
    \/ \E p \in ChatTurns : ChatAfterCacheGet(p)
    \/ \E p \in ChatTurns, t \in OneText : ChatAfterGenerate(p, t)
    \/ \E p \in ChatTurns : ChatAfterCacheSet(p)

SpecTurns == InitT /\ [][NextT]_vars

----------------------------------------------------------------------------
(* Claims about the batch accumulator, checked under SpecBatch *)

\* an upper limit on the time an entry may wait in the queue: one day
StalenessLimit == 86400

\* C1 as stated: BATCH_SIZE successive add_sections calls that start on the
\* empty queue, none of whose inserts fails, make exactly one insert call and
\* leave the queue empty.
C1_BatchTriggerAnyTime ==
    (run.calls = BATCH_SIZE /\ run.clean)
        => (run.inserts = 1 /\ batch_queue = <<>>)

\* C1 amended: BATCH_SIZE successive add_sections calls that start on the
\* empty queue, each made no more than 60 seconds after the last flush (or
\* construction) and none of whose inserts fails, make exactly one insert
\* call, at the last of them, and leave the queue empty.
C1_BatchTrigger ==
    (run.calls = BATCH_SIZE /\ run.clean /\ run.quick)
        => (run.inserts = 1 /\ batch_queue = <<>>)

C1_Witness ==
    /\ run.calls = BATCH_SIZE /\ run.clean /\ run.quick
    /\ run.inserts = 1 /\ batch_queue = <<>>
    /\ obs.op = "add_sections" /\ obs.trigger = "size"
    /\ obs.elapsed = FlushAfterSeconds

\* C2: an add_sections call attempts a flush if and only if the queue, with
\* the new entry, holds at least BATCH_SIZE entries or more than 60 seconds
\* have elapsed since the last successful flush (or construction).
C2_TriggerIffDue ==
    obs.op = "add_sections"
        => (obs.attempted <=>
              (obs.qlen >= BATCH_SIZE \/ obs.elapsed > FlushAfterSeconds))

\* C3: a flush is all-or-nothing.  After an insert that succeeded the queue is
\* empty, the last-flush time is the time of the flush and the batch is in
\* the store; after an insert that failed the method raised, and the queue,
\* the last-flush time and the store are what they were.
C3_FlushAllOrNothing ==
    obs.attempted =>
        IF obs.ok
        THEN /\ ~obs.raised
             /\ batch_queue = <<>>
             /\ last_process_time = obs.at
             /\ Len(collection) = obs.stored_before + Len(obs.batch)
        ELSE /\ obs.raised
             /\ batch_queue = obs.flushed
             /\ last_process_time = obs.last_before
             /\ Len(collection) = obs.stored_before

C3_Witness ==
    /\ obs.attempted /\ ~obs.ok /\ obs.raised
    /\ Len(batch_queue) >= 2
    /\ batch_queue = obs.flushed
    /\ obs.after_failed # "none"
    /\ now > last_process_time

\* C4: the add_sections call that follows a failed flush attempts a flush of
\* every entry that was queued at the failure plus the new entry.
C4_NextAddRetries ==
    (obs.op = "add_sections" /\ obs.after_failed \in {"size", "time", "drain"})
        => /\ obs.attempted
           /\ Len(obs.flushed) = Len(obs.before) + 1
           /\ SubSeq(obs.flushed, 1, Len(obs.before)) = obs.before
           /\ obs.batch = BatchRecords(obs.flushed, obs.at)

\* C5: no entry waits in the queue for longer than a bounded time (here: a
\* day), whether or not further add_sections calls follow it.
C5_StalenessBounded ==
    \A i \in 1..Len(batch_queue) :
        now - batch_queue[i].timestamp <= StalenessLimit

\* C6: flushing the empty queue is a no-op.  _process_batch and close() on
\* the empty queue make no insert call, do not raise, and leave the queue,
\* the last-flush time and the store unchanged.
C6_EmptyFlushNoOp ==
    (obs.op \in {"process_batch", "close"} /\ obs.before = <<>>)
        => /\ ~obs.attempted
           /\ ~obs.raised
           /\ batch_queue = <<>>
           /\ last_process_time = obs.last_before
           /\ Len(collection) = obs.stored_before

C6_Witness ==
    /\ obs.op = "process_batch" /\ obs.before = <<>>
    /\ Len(collection) > 0
    /\ obs.at > last_process_time

----------------------------------------------------------------------------
(* Claims about the indexed records, checked under SpecIndex *)

RECURSIVE SectionCount(_)
SectionCount(entries) ==
    IF entries = <<>> THEN 0
    ELSE Len(Head(entries).sections) + SectionCount(Tail(entries))

\* the positions of the sequence of records that hold the given id
Holding(records, id) == {i \in 1..Len(records) : records[i].id = id}

\* C7: the store holds exactly one record per section of every batch entry
\* of a successful insert, under the id made of the suffixed doc_id and the
\* section's index, and nothing else; no two records of the store share an
\* id and no insert call submits an id twice.
C7_OneRecordPerSection ==
    /\ Len(collection) = SectionCount(accepted)
    /\ \A e \in 1..Len(accepted) : \A k \in 1..Len(accepted[e].sections) :
         \E i \in 1..Len(collection) :
            /\ Holding(collection, <<accepted[e].doc_id, "section", k - 1>>) = {i}
            /\ collection[i].document = accepted[e].sections[k].content
            /\ collection[i].metadata.doc_id = accepted[e].doc_id
            /\ collection[i].metadata.title = accepted[e].sections[k].title
            /\ collection[i].metadata.page = accepted[e].sections[k].page
    /\ \A i, j \in 1..Len(collection) :
         collection[i].id = collection[j].id => i = j
    /\ \A i, j \in 1..Len(obs.batch) :
         obs.batch[i].id = obs.batch[j].id => i = j

\* a retried batch went in: two uploads of the same external doc_id, the
\* first of which went through a failed flush, are both in the store
C7_Witness ==
    /\ Len(accepted) >= 2
    /\ accepted[1].doc_id[1] = accepted[2].doc_id[1]
    /\ Len(accepted[1].sections) = 2 /\ Len(accepted[2].sections) = 2
    /\ obs.ok /\ obs.after_failed = "time"
    /\ Len(collection) >= 4

----------------------------------------------------------------------------
(* Claims about query, checked under SpecQuery and SpecPermits *)

\* the live cache entries under the key of request p's question
EntriesFor(p) == {e \in cache : e.key = <<"query:", question[p]>>}

\* request p's awaited redis.get returns without raising in this step
GetReturns(p) == pc[p] = "cache_get" /\ pc'[p] # "cache_get" /\ faults' = faults

\* C8: when redis.get finds an entry under the exact question, query returns
\* the cached answer at once: the request has made no vector-store query,
\* taken no permit, made no generation call, and the cache is not written.
C8_CacheHitShortCircuits ==
    [][\A p \in Requests :
         /\ (GetReturns(p) /\ EntriesFor(p) # {})
               => /\ pc'[p] = "done"
                  /\ outcome'[p].kind = "answer"
                  /\ outcome'[p].from = "cache"
                  /\ \E e \in EntriesFor(p) : outcome'[p].value = e.value[2]
                  /\ steps'[p] = <<"cache_get">>
                  /\ cache' = cache
                  /\ sem_value' = sem_value
         /\ (GetReturns(p) /\ outcome'[p].kind = "answer" /\ outcome'[p].from = "cache")
               => EntriesFor(p) # {}
      ]_vars

\* a request was served from the cache an answer another request generated
C8_Witness ==
    \E p \in Requests, r \in Requests :
        /\ p # r
        /\ question[p] = question[r]
        /\ context[p] # context[r]
        /\ outcome[r].kind = "answer" /\ outcome[r].from = "fresh"
        /\ outcome[p].kind = "answer" /\ outcome[p].from = "cache"
        /\ outcome[p].value = outcome[r].value
        /\ steps[p] = <<"cache_get">>

\* C9: when the cache misses and the vector store returns no section, query
\* returns the canned answer with empty sources, makes no generation call and
\* writes no cache entry; no cache entry ever holds a canned or source-less
\* answer, so a later query for the question reaches retrieval again.
C9_EmptyRetrievalNotCached ==
    /\ [](\A e \in cache : e.value[2] # CannedAnswer /\ e.value[2].sources # <<>>)
    /\ [][\A p \in Requests :
            (GetReturns(p) /\ EntriesFor(p) = {} /\ collection = <<>>)
               => /\ pc'[p] = "done"
                  /\ outcome'[p] = [kind |-> "answer", value |-> CannedAnswer,
                                    from |-> "canned"]
                  /\ outcome'[p].value.sources = <<>>
                  /\ steps'[p] = <<"cache_get", "store_query">>
                  /\ cache' = cache
                  /\ sem_value' = sem_value
        ]_vars

\* after a canned answer and indexing, a later request for the same question
\* has queried the store, found sections and is generating
C9_Witness ==
    \E p \in Requests, r \in Requests :
        /\ p # r
        /\ question[p] = question[r]
        /\ outcome[p].kind = "answer" /\ outcome[p].from = "canned"
        /\ pc[r] = "generate"
        /\ results[r] # <<>>
        /\ steps[r] = <<"cache_get", "store_query", "acquire", "generate">>

\* the number of times a step occurs among the calls a request has made
Count(seq, step) == Cardinality({i \in 1..Len(seq) : seq[i] = step})

\* the request is inside the async with block of the semaphore
HoldsPermit(p) == Count(steps[p], "acquire") = Count(steps[p], "release") + 1

\* the requests whose generation call is in flight
Generating == {p \in DOMAIN pc : pc[p] = "generate"}

\* C10: at most MAX_CONCURRENT_CALLS generation calls are in flight, and
\* every request whose generation call is in flight holds a permit.
C10_BoundedGeneration ==
    /\ Cardinality(Generating) <= MAX_CONCURRENT_CALLS
    /\ \A p \in Generating : HoldsPermit(p)
    /\ sem_value >= 0

\* all permits are taken and a further request waits for one
C10_Witness ==
    /\ Cardinality(Generating) = MAX_CONCURRENT_CALLS
    /\ sem_value = 0
    /\ \E p \in DOMAIN pc : pc[p] = "wait_sem" /\ ~HoldsPermit(p)

----------------------------------------------------------------------------
(* Claims about the order of the steps of one query, the race of two       *)
(* queries and the failures of a query, checked under SpecQuery            *)

\* the external calls of a query that misses the cache and generates, in the
\* order the code issues them
QueryOrder == <<"cache_get", "store_query", "acquire", "generate", "release",
                "cache_set">>

IsPrefix(a, b) == Len(a) <= Len(b) /\ a = SubSeq(b, 1, Len(a))

\* the calls a request has issued by the time it is suspended at a call
IssuedAt(at) ==
    CASE at = "idle" -> <<>>
      [] at = "cache_get" -> SubSeq(QueryOrder, 1, 1)
      [] at = "wait_sem" -> SubSeq(QueryOrder, 1, 2)
      [] at = "generate" -> SubSeq(QueryOrder, 1, 4)
      [] at = "cache_set" -> QueryOrder

\* request p's awaited redis.set returns without raising in this step
SetReturns(p) == pc[p] = "cache_set" /\ pc'[p] = "done" /\ faults' = faults

\* C11: within one query the steps are strictly ordered: while the cache
\* lookup is in flight nothing else has been issued, the vector-store query
\* is issued only after the lookup returned, the generation call only after
\* the store query returned, the cache write only after the generation call
\* returned, and only after it returned an answer; the cache is written only
\* by a request that went through all the steps.
C11_StepsSequential ==
    /\ [](\A p \in Requests :
            /\ IsPrefix(steps[p], QueryOrder)
            /\ pc[p] # "done" => steps[p] = IssuedAt(pc[p]))
    /\ [][\A p \in Requests :
            /\ (steps'[p] # steps[p] /\ steps'[p] = QueryOrder)
                  => /\ pc[p] = "generate"
                     /\ faults' = faults
                     /\ response'[p].answer \in Texts
            /\ (\E e \in cache' \ cache : e.key = <<"query:", question[p]>>
                                          /\ e.value = <<"json", response[p]>>)
                  => steps[p] = QueryOrder /\ pc[p] = "cache_set"
        ]_vars
    /\ [][cache' \subseteq cache \/ \E p \in Requests : SetReturns(p)]_vars

\* a request went through all four steps and its answer is in the cache
C11_Witness ==
    \E p \in Requests :
        /\ pc[p] = "done"
        /\ steps[p] = QueryOrder
        /\ outcome[p].kind = "answer" /\ outcome[p].from = "fresh"
        /\ \E e \in EntriesFor(p) : e.value = <<"json", outcome[p].value>>

\* C12: two concurrent queries for the same question can both miss the cache
\* and both generate; every completed cache write leaves, under the key of
\* the question, the single entry holding the writer's answer, and the cache
\* changes in no other way than a write or an expiry: after both requests
\* finish, the entry is the answer of the request that wrote last.
C12_LastWriterWins ==
    /\ [](\A e1 \in cache, e2 \in cache : e1.key = e2.key => e1 = e2)
    /\ [][\A p \in Requests :
            SetReturns(p)
               => /\ {e.value : e \in EntriesFor(p)'} = {<<"json", response[p]>>}
                  /\ {e \in cache' : e.key # <<"query:", question[p]>>}
                        = {e \in cache : e.key # <<"query:", question[p]>>}
        ]_vars
    /\ [][(cache' # cache)
            => \/ now' > now /\ cache' \subseteq cache
               \/ \E p \in Requests : SetReturns(p)]_vars

\* both requests asked the same question, both missed and generated
\* different answers; the request that called first wrote last, and the
\* cache holds its answer
C12_Witness ==
    /\ question[1] = question[2]
    /\ pc[1] = "done" /\ pc[2] = "done"
    /\ outcome[1].kind = "answer" /\ outcome[1].from = "fresh"
    /\ outcome[2].kind = "answer" /\ outcome[2].from = "fresh"
    /\ outcome[1].value # outcome[2].value
    /\ {e.value : e \in EntriesFor(1)} = {<<"json", outcome[1].value>>}

\* request p's pending call (or, after redis.get, the vector-store query that
\* follows it without suspension) raises in this step
CallFails(p) == pc[p] \in {"cache_get", "generate", "cache_set"}
                /\ pc'[p] # pc[p] /\ faults' = faults + 1

\* C13: when the vector-store query, the generation call or the cache write
\* of a query fails, the query ends with the error of that step: it returns
\* no answer, the cache is not written, no step is attempted again (each of
\* retrieval, generation and cache write at most once per request), and a
\* failed cache write after a successful generation is an error too.
C13_FailureEndsQuery ==
    /\ [](\A p \in Requests :
            /\ Count(steps[p], "store_query") <= 1
            /\ Count(steps[p], "generate") <= 1
            /\ Count(steps[p], "cache_set") <= 1)
    /\ [][\A p \in Requests :
            /\ CallFails(p)
                  => /\ pc'[p] = "done"
                     /\ outcome'[p].kind = "error"
                     /\ outcome'[p].at \in
                           (IF pc[p] = "cache_get" THEN {"cache_get", "store_query"}
                            ELSE {pc[p]})
                     /\ cache' = cache
                     /\ Len(steps'[p]) <= Len(steps[p]) + 1
            /\ (pc[p] = "cache_set" /\ pc'[p] = "done" /\ outcome'[p].kind = "answer")
                  => faults' = faults /\ EntriesFor(p)' # {}
        ]_vars

\* a generation succeeded, the cache write failed: the request ended with
\* the error and the question has no cache entry
C13_Witness ==
    \E p \in Requests :
        /\ pc[p] = "done"
        /\ outcome[p] = [kind |-> "error", at |-> "cache_set"]
        /\ steps[p] = QueryOrder
        /\ EntriesFor(p) = {}

----------------------------------------------------------------------------
(* Claims about the conversation history, checked under SpecChat *)

\* C14: after n successful chat turns, sequential or interleaved, the
\* history holds exactly min(n, 5) exchanges: the most recently appended
\* ones, in the order they were appended; it never holds more than 5.
C14_HistoryWindow ==
    /\ Len(history) = (IF Len(turns) < 5 THEN Len(turns) ELSE 5)
    /\ \A i \in 1..Len(history) :
          history[i] = turns[Len(turns) - Len(history) + i]
    /\ Len(history) <= 5

\* seven turns succeeded and the first two exchanges are gone from the
\* history; the turn that returned last began when the history held one
\* exchange, so five other turns returned while it was in progress
C14_Witness ==
    /\ Len(turns) = 7
    /\ Len(history) = 5
    /\ history[1] = turns[3]
    /\ turns[2] # turns[3]
    /\ \E r \in ChatTurns :
          /\ pc[r] = "done" /\ outcome[r].kind = "answer"
          /\ Len(context[r]) = 3
          /\ history[5].question = question[r]

\* the "Q:" and "A:" lines of one exchange
Pair(entry) == << <<"Q: ", entry.question>>, <<"A: ", entry.answer, "\n">> >>

\* C15: chat passes no context exactly when the history is empty at the
\* start of the turn; otherwise the context is the preamble followed by the
\* Q/A pairs of the last min(2, length) exchanges, oldest first, and of no
\* older one; the context is what heads the prompt of the generation call.
C15_ContextLastTwo ==
    /\ [][\A p \in ChatTurns :
            (pc[p] = "idle" /\ pc'[p] # "idle")
               => context'[p] =
                    (CASE Len(history) = 0 -> ""
                       [] Len(history) = 1 ->
                            <<"Recent conversation:">> \o Pair(history[1])
                       [] OTHER ->
                            <<"Recent conversation:">>
                               \o Pair(history[Len(history) - 1])
                               \o Pair(history[Len(history)]))
        ]_vars
    /\ [](\A p \in ChatTurns :
            pc[p] = "generate"
               => (IF context[p] = "" THEN prompt[p][1] = <<"Relevant sections:">>
                   ELSE prompt[p][1] = <<"context", context[p]>>))

\* a turn that started with three exchanges in the history has called query
\* with a context of the preamble and the pairs of the last two
C15_Witness ==
    \E p \in ChatTurns :
        /\ pc[p] = "cache_get"
        /\ InFlight = {p}
        /\ Len(history) = 3
        /\ Len(context[p]) = 5
        /\ context[p][2] = <<"Q: ", history[2].question>>
        /\ history[1].question # history[2].question

----------------------------------------------------------------------------
(* Claims about the sectioner, checked under SpecSectioner *)

\* the lines of the text that was split
InputLines == SplitLines(upload.input[1])

\* the lines the loop does not skip, stripped
RECURSIVE KeptOf(_)
KeptOf(lines) ==
    IF lines = <<>> THEN <<>>
    ELSE IF Strip(Head(lines)) = <<>> THEN KeptOf(Tail(lines))
    ELSE <<Strip(Head(lines))>> \o KeptOf(Tail(lines))

Kept == KeptOf(InputLines)

\* the lines joined line-wise: each followed by a newline
RECURSIVE LinesJoined(_)
LinesJoined(lines) ==
    IF lines = <<>> THEN <<>> ELSE Head(lines) \o <<"\n">> \o LinesJoined(Tail(lines))

\* the header lines, and those followed by a body line before the next header
\* or the end of the text
HeaderAt == {i \in 1..Len(Kept) : IsSectionHeader(Kept[i])}

WithBody == {i \in HeaderAt : i < Len(Kept) /\ ~IsSectionHeader(Kept[i + 1])}

\* body text precedes the first header
LeadingBody == Kept # <<>> /\ ~IsSectionHeader(Kept[1])

\* C16: a page text without any header line, the empty text and texts of
\* blank lines included, is split into exactly one section, with empty title
\* and with the lines of the page, joined by newlines, as content.
C16_NoHeaderOneSection ==
    (upload.op = "split" /\ HeaderAt = {})
       => /\ Len(upload.sections) = 1
          /\ upload.sections[1].title = <<>>
          /\ upload.sections[1].content = LinesJoined(Kept)

\* C17 as stated: for a text with at least one header line, the number of
\* sections is the number of header lines followed by a body line before the
\* next header or the end of the text.
C17_SectionsPerHeader ==
    (upload.op = "split" /\ HeaderAt # {})
       => Len(upload.sections) = Cardinality(WithBody)

\* the sections before those that start at a header
Lead == IF LeadingBody THEN 1 ELSE 0

\* C17: for a text with at least one header line, the sections are one per
\* header line that is followed by a body line before the next header or the
\* end of the text, titled with that header and in the order of the headers,
\* preceded by one untitled section when body text precedes the first
\* header; so a run of headers without body between them gives one section
\* titled with the last of the run, and a trailing header gives none.
C17_SectionsPerHeaderOrLead ==
    (upload.op = "split" /\ HeaderAt # {})
       => /\ Len(upload.sections) = Cardinality(WithBody) + Lead
          /\ LeadingBody => upload.sections[1].title = <<>>
          /\ \A i \in WithBody :
                upload.sections[Lead + Cardinality({j \in WithBody : j <= i})].title
                   = Kept[i]
          /\ \A k \in 1..Len(upload.sections) : upload.sections[k].content # <<>>

\* body text, a header, body text: an untitled section and the section of
\* the header
C17_Witness ==
    /\ upload.op = "split"
    /\ Len(Kept) = 3
    /\ LeadingBody
    /\ HeaderAt = {2}
    /\ WithBody = {2}
    /\ Len(upload.sections) = 2
    /\ upload.sections[1].title = <<>>
    /\ upload.sections[2].title = Kept[2]

----------------------------------------------------------------------------
(* Claims about document processing, checked under SpecDocs *)

\* this step is a process_document call in which the extraction of a page fails
ExtractionFailed ==
    /\ upload'.calls = upload.calls + 1
    /\ upload'.op = "process_document"
    /\ upload'.input.readable
    /\ \E i \in 1..Len(upload'.input.pages) : ~upload'.input.pages[i].ok

\* C18: when the extraction of any page fails, process_document fails as a
\* whole and stores nothing: the registry is unchanged (no new and no
\* changed entry for the doc_id), no batch entry is enqueued and nothing is
\* added to the vector store; every add_sections call so far belongs to a
\* document that was processed completely.
C18_FailedExtractionStoresNothing ==
    /\ [][ExtractionFailed
            => /\ upload'.failed
               /\ documents' = documents
               /\ batch_queue' = batch_queue
               /\ uuid_count' = uuid_count
               /\ collection' = collection
               /\ accepted' = accepted
          ]_vars
    /\ [](uuid_count = upload.processed)
    /\ [](\A i \in 1..Len(batch_queue) :
             \E d \in DOMAIN documents : batch_queue[i].doc_id[1] = d)

\* the second page of a document failed after the first was extracted, when
\* an earlier upload under the same doc_id had been registered and queued:
\* the registry still holds the earlier document, the queue only its entry
C18_Witness ==
    /\ upload.op = "process_document"
    /\ upload.failed
    /\ Len(upload.input.pages) = 2
    /\ upload.input.pages[1].ok /\ ~upload.input.pages[2].ok
    /\ upload.doc_id \in DOMAIN documents
    /\ documents[upload.doc_id].total_pages = 2
    /\ Len(batch_queue) = 1
    /\ uuid_count = 1
    /\ collection = <<>>

----------------------------------------------------------------------------
(* Claim about shutdown, checked under SpecBatch *)

\* C19: shutdown cleanup is best-effort: when the drain flush of close()
\* fails, the cache connection is closed all the same.
C19_ShutdownClosesCache ==
    (shutdown /\ obs.op = "close" /\ obs.raised) => ~redis_open

----------------------------------------------------------------------------
(* Claim about the sources of an answer, checked under SpecSources *)

\* C20: a freshly generated answer lists one source per section the vector
\* store returned, in the order the store returned them, each with the
\* title, page and doc_id of its section; there are at most 3 sources.
C20_SourcesFollowRanking ==
    [][\A p \in Asker :
         (pc[p] = "cache_set" /\ pc'[p] = "done" /\ outcome'[p].kind = "answer")
            => /\ outcome'[p].from = "fresh"
               /\ Len(outcome'[p].value.sources) = Len(results[p])
               /\ Len(outcome'[p].value.sources) <= 3
               /\ \A i \in 1..Len(results[p]) :
                     /\ outcome'[p].value.sources[i].title = results[p][i].metadata.title
                     /\ outcome'[p].value.sources[i].page = results[p][i].metadata.page
                     /\ outcome'[p].value.sources[i].doc_id = results[p][i].metadata.doc_id
                     /\ DOMAIN outcome'[p].value.sources[i] = {"title", "page", "doc_id"}
      ]_vars

\* the store holds four sections and ranked the last one first: the answer
\* has three sources, the first of them the section stored last
C20_Witness ==
    \E p \in Asker :
        /\ pc[p] = "done"
        /\ outcome[p].kind = "answer" /\ outcome[p].from = "fresh"
        /\ Len(collection) = 4
        /\ Len(outcome[p].value.sources) = 3
        /\ outcome[p].value.sources[1].doc_id = collection[4].metadata.doc_id
        /\ outcome[p].value.sources[1].title = collection[4].metadata.title
        /\ outcome[p].value.sources[3].doc_id = collection[2].metadata.doc_id
        /\ outcome[p].value.sources[1].doc_id # outcome[p].value.sources[3].doc_id

----------------------------------------------------------------------------
(* Claim about concurrent flushes, checked under SpecRace *)

\* C21: however add_sections calls and close() interleave, no two flushes
\* work on the same queue snapshot: no batch entry is part of two successful
\* inserts, an inserted entry is no longer queued, and entries leave the
\* queue only by the clear that follows a successful insert of exactly the
\* entries that were queued.
C21_NoRacingFlushes ==
    /\ [](\A i, j \in 1..Len(accepted) : accepted[i] = accepted[j] => i = j)
    /\ [](\A i \in 1..Len(batch_queue), j \in 1..Len(accepted) :
             batch_queue[i] # accepted[j])
    /\ [][~IsPrefix(batch_queue, batch_queue')
            => /\ batch_queue' = <<>>
               /\ obs'.attempted /\ obs'.ok
               /\ IsPrefix(batch_queue, obs'.flushed)
               /\ accepted' = accepted \o obs'.flushed
               /\ collection' = collection \o obs'.batch
               /\ Len(obs'.batch) = SectionCount(obs'.flushed)
          ]_vars

\* close() drained the queue and is suspended at redis.close(); an upload
\* that came in meanwhile was flushed on its own
C21_Witness ==
    /\ pc[Closer] = "redis_close"
    /\ obs.op = "add_sections" /\ obs.ok
    /\ Len(accepted) = 2
    /\ obs.flushed = <<accepted[2]>>
    /\ batch_queue = <<>>
    /\ Len(collection) = 4

----------------------------------------------------------------------------
(* Claim about what a chat turn does to the history, checked under SpecTurns *)

\* the query of turn p returns or raises in this step
TurnEnds(p) == pc[p] \notin {"idle", "done"} /\ pc'[p] = "done"

\* the history after entry e was appended to h and the history trimmed
Appended(h, e) ==
    IF Len(h) < HistoryCap THEN h \o <<e>> ELSE SubSeq(h, 2, Len(h)) \o <<e>>

\* C22: a chat turn appends exactly one entry, the question with the answer
\* returned, when its query returns an answer, be it fresh, cached or the
\* canned one, and only then: a turn whose query raises leaves the history
\* unchanged, and the history changes in no other step.
C22_OneEntryPerAnswer ==
    [][/\ \A p \in ChatTurns :
            /\ (TurnEnds(p) /\ outcome'[p].kind = "answer")
                  => /\ outcome'[p].from \in {"fresh", "cache", "canned"}
                     /\ history' = Appended(history,
                                       [question |-> question[p],
                                        answer |-> outcome'[p].value.answer,
                                        timestamp |-> now])
            /\ (TurnEnds(p) /\ outcome'[p].kind = "error") => history' = history
       /\ (history' # history)
             => \E p \in ChatTurns : TurnEnds(p) /\ outcome'[p].kind = "answer"
      ]_vars

\* after a canned answer, a failed turn and a fresh answer, a turn was served
\* from the cache: the history holds the three answered turns
C22_Witness ==
    /\ Len(history) = 3
    /\ faults >= 1
    /\ history[1].answer = CannedAnswer.answer
    /\ history[2].answer \in OneText
    /\ history[3].answer = history[2].answer
    /\ \E p \in ChatTurns : pc[p] = "done" /\ outcome[p].kind = "answer"
                            /\ outcome[p].from = "cache"
    /\ \E p \in ChatTurns : pc[p] = "done" /\ outcome[p].kind = "error"

----------------------------------------------------------------------------
(* Claim about the permits over failing generation calls, checked under    *)
(* SpecPermits                                                             *)

\* every request has returned or raised
AllFinished == \A p \in DOMAIN pc : pc[p] = "done"

\* the generation call of request p raises in this step
GenerationFails(p) ==
    pc[p] = "generate" /\ pc'[p] = "done" /\ outcome'[p] = Raised("generate")

\* C23: the free permits and the requests inside the gated generation step
\* always add up to MAX_CONCURRENT_CALLS; a request whose generation call
\* fails gives its permit back in the step in which it raises; and once
\* every request has finished, all permits are free.
C23_PermitsConserved ==
    /\ [](sem_value + Cardinality(Generating) = MAX_CONCURRENT_CALLS)
    /\ [](\A p \in DOMAIN pc : HoldsPermit(p) <=> p \in Generating)
    /\ [][\A p \in DOMAIN pc :
             GenerationFails(p) => /\ sem_value' = sem_value + 1
                                   /\ HoldsPermit(p) /\ ~HoldsPermit(p)']_vars
    /\ [](AllFinished => sem_value = MAX_CONCURRENT_CALLS)

\* every request has finished, each of them took a permit, the generation
\* call of one of them failed, and all permits are free
C23_Witness ==
    /\ AllFinished
    /\ \A p \in DOMAIN pc : Count(steps[p], "acquire") = 1
    /\ \E p \in DOMAIN pc : outcome[p] = Raised("generate")
    /\ \E p \in DOMAIN pc : outcome[p].kind = "answer" /\ outcome[p].from = "fresh"
    /\ sem_value = MAX_CONCURRENT_CALLS

----------------------------------------------------------------------------
(* Claim about the cache key and the conversation context, checked under   *)
(* SpecQuery                                                               *)

\* request a returned a generated answer and the entry it wrote is still live
PopulatedBy(a) ==
    /\ pc[a] = "done"
    /\ outcome[a].kind = "answer" /\ outcome[a].from = "fresh"
    /\ \E e \in cache : /\ e.key = CacheKey(question[a])
                        /\ e.value = Dumps(outcome[a].value)
                        /\ now < e.expires

\* request b asks the question of request a under another context and its
\* cache lookup returns in this step
AsksAgain(a, b) ==
    /\ a # b
    /\ question[b] = question[a]
    /\ context[b] # context[a]
    /\ pc[b] = "cache_get"
    /\ pc'[b] # "cache_get"
    /\ outcome'[b] # Raised("cache_get")

\* C24: the cache key is made of the question alone: when a query asks the
\* question of an earlier query whose cached answer has not expired, under a
\* different context, it returns exactly the answer of the earlier query,
\* without a prompt being formatted from its own context.
C24_ContextNotInKey ==
    [][\A a, b \in Requests :
          (PopulatedBy(a) /\ AsksAgain(a, b))
              => /\ pc'[b] = "done"
                 /\ outcome'[b] = Returned(outcome[a].value, "cache")
                 /\ prompt'[b] = <<>>
                 /\ steps'[b] = <<"cache_get">>
      ]_vars

\* a query without context was answered with what a query of the same
\* question with a conversation context had generated and cached, and the
\* entry is still live
C24_Witness ==
    \E a, b \in Requests :
        /\ PopulatedBy(a)
        /\ context[a] = "Recent conversation:"
        /\ pc[b] = "done"
        /\ question[b] = question[a]
        /\ context[b] = NoContext
        /\ outcome[b] = Returned(outcome[a].value, "cache")

====
